---- MODULE Spec2Model ----
(***************************************************************************)
(* Model of the pure utilities of lib/sitecommand-utils (calculatePriority, *)
(* calculateHours, getCalendarGrid), of their callers, and of the parts of  *)
(* the application around them: AuthProvider and AppLayout, DailyLogsPage,  *)
(* JobFormDialog, TimesheetPage and fetchCalendarNotes.                     *)
(*                                                                          *)
(* Representation:                                                          *)
(*   - a JavaScript Date is a record [valid, day, mins]: the local civil    *)
(*     day as a day number (days since 0001-01-01, proleptic Gregorian) and *)
(*     the minute of that day; valid = FALSE is "Invalid Date" (NaN);       *)
(*   - an ISO date string is the record of its fields (kind, y, m, d, hh,   *)
(*     mi); parseISO turns it into a Date, validating the fields;           *)
(*   - a JavaScript number that may be NaN is a record [nan, v];            *)
(*   - a time string is the sequence of its characters;                     *)
(*   - a number of hours h is represented by the integer 100 * h            *)
(*     (0.25 h = 25, 8.0 h = 800): every result is a multiple of 0.25;      *)
(*   - row ids are positive integers, 0 standing for null; a user id is a   *)
(*     string, "none" standing for null;                                    *)
(*   - a React commit (a handler or a resolved promise, the state updates   *)
(*     it batches and the effects they trigger) is one action.              *)
(***************************************************************************)
EXTENDS Integers, Sequences, FiniteSets

VARIABLES
    pc,            \* position of the call under study: "ready" or "done"
    now,           \* the clock read by new Date()
    dueDate,       \* argument of calculatePriority
    priority,      \* its result ("none" before the call)
    start,         \* arguments of calculateHours
    finish,
    lunchArg,      \* [given, v]: the third argument, possibly omitted
    line,          \* the TimesheetLine given to lineHours
    caller,        \* "direct" or "lineHours"
    hours,         \* result of calculateHours, times 100
    year,          \* arguments of getCalendarGrid
    month,
    gridResult,    \* [error, weeks]: what the call ended in
    incomplete,    \* DashboardPage: the fetched incomplete items, four lists
    priorityFilter,\* DashboardPage: 'all' | 'high' | 'medium' | 'low'
    flat,          \* DashboardPage: allIncompleteFlat
    firstCalledAt, \* the clock at the first call of calculatePriority
    firstPriority, \* what that first call returned
    calledAt,      \* the clock at the latest call of calculatePriority
    profiles,      \* backend table profiles: user id -> role
    user,          \* AuthProvider: the signed-in user id, or "none"
    profile,       \* AuthProvider: [user_id, role], or NoProfile
    loading,       \* AuthProvider: initAuth not finished
    pendingFetches,\* AuthProvider: fetchProfile calls not yet resolved
    currentPage,   \* AppLayout
    pageData,      \* AppLayout: the logId handed to the page, or 0
    showJobDialog, \* AppLayout
    daily_logs,    \* backend table daily_logs: rows [id, project_id, log_date]
    selectedDate,  \* DailyLogsPage
    logs,          \* DailyLogsPage: the rows last stored by loadLogs
    selectedLogId, \* DailyLogsPage: a row id, or 0
    currentLog,    \* DailyLogsPage: id of the log shown in detail, or 0
    initialData,   \* DailyLogsPage: the logId prop, or 0
    inFlight,      \* DailyLogsPage: store fetches not yet resolved
    selections,    \* DailyLogsPage: number of dates and logs the user has picked
    projects,      \* backend table projects: rows [id, name]
    mode,          \* JobFormDialog: 'new' | 'existing'
    selectedProjectId, \* JobFormDialog: a project id, or 0 for ''
    projectName,   \* JobFormDialog
    saving,        \* JobFormDialog
    submitStep,    \* JobFormDialog.handleSubmit: "idle", "createProject", "createDailyLog"
    projectId,     \* handleSubmit's local projectId
    submissions,   \* number of submissions so far
    lastOutcome,   \* how the latest submission of the form as it stands ended
    createdBySubmit, \* ids of the projects inserted by the latest submission and by
                   \* the failed submissions of the same form before it
    settings,      \* TimesheetPage: [loaded, timesheetPeriod, lunchDefaultMinutes]
    weekEnding,    \* TimesheetPage: day number of the week-ending date, 0 for ''
    timesheetDays, \* TimesheetPage: days, rows [date, lines]
    nextLineId,    \* the id the next makeLine() draws
    sheetEdits,    \* number of timesheet edits so far
    calendar_notes,\* backend table calendar_notes: the note_date of each row
    notesMonth,    \* arguments of fetchCalendarNotes
    notesYear,
    notesResult    \* [error, rows]: what the query ended in

vars == <<pc, now, dueDate, priority, start, finish, lunchArg, line, caller, hours,
          year, month, gridResult, incomplete, priorityFilter, flat,
          firstCalledAt, firstPriority, calledAt,
          profiles, user, profile, loading, pendingFetches,
          currentPage, pageData, showJobDialog,
          daily_logs, selectedDate, logs, selectedLogId, currentLog, initialData,
          inFlight, selections,
          projects, mode, selectedProjectId, projectName, saving, submitStep,
          projectId, submissions, lastOutcome, createdBySubmit,
          settings, weekEnding, timesheetDays, nextLineId, sheetEdits,
          calendar_notes, notesMonth, notesYear, notesResult>>

priorityVars == <<now, dueDate, priority>>
hoursVars == <<start, finish, lunchArg, line, caller, hours>>
gridVars == <<year, month, gridResult>>
dashboardVars == <<incomplete, priorityFilter, flat>>
repeatVars == <<firstCalledAt, firstPriority, calledAt>>
layoutVars == <<profiles, user, profile, loading, pendingFetches,
                currentPage, pageData, showJobDialog>>
logsVars == <<selectedDate, logs, selectedLogId, currentLog, initialData,
              inFlight, selections>>
jobVars == <<projects, mode, selectedProjectId, projectName, saving, submitStep,
             projectId, submissions, lastOutcome, createdBySubmit>>
sheetVars == <<settings, weekEnding, timesheetDays, nextLineId, sheetEdits>>
notesVars == <<calendar_notes, notesMonth, notesYear, notesResult>>
appVars == <<repeatVars, layoutVars, daily_logs, logsVars, jobVars, sheetVars,
             notesVars>>

\* getCalendarGrid not called
IdleGrid ==
    /\ year = 0
    /\ month = 0
    /\ gridResult = [error |-> "none", weeks |-> <<>>]

\* DashboardPage not mounted
IdleDashboard ==
    /\ incomplete = [loaded |-> FALSE, activities |-> <<>>, materials |-> <<>>,
                     equipment |-> <<>>, crew |-> <<>>]
    /\ priorityFilter = "all"
    /\ flat = <<>>

\* calculatePriority not called a second time
IdleRepeat ==
    /\ firstCalledAt = [valid |-> FALSE, day |-> 0, mins |-> 0]
    /\ firstPriority = "none"
    /\ calledAt = [valid |-> FALSE, day |-> 0, mins |-> 0]

NoProfile == [user_id |-> "none", role |-> "none"]

\* AuthProvider and AppLayout not mounted
IdleLayout ==
    /\ profiles = <<>>
    /\ user = "none"
    /\ profile = NoProfile
    /\ loading = TRUE
    /\ pendingFetches = {}
    /\ currentPage = "dashboard"
    /\ pageData = 0
    /\ showJobDialog = FALSE

\* DailyLogsPage not mounted
IdleLogs ==
    /\ selectedDate = 0
    /\ logs = <<>>
    /\ selectedLogId = 0
    /\ currentLog = 0
    /\ initialData = 0
    /\ inFlight = {}
    /\ selections = 0

\* JobFormDialog closed
IdleJob ==
    /\ projects = <<>>
    /\ mode = "new"
    /\ selectedProjectId = 0
    /\ projectName = ""
    /\ saving = FALSE
    /\ submitStep = "idle"
    /\ projectId = 0
    /\ submissions = 0
    /\ lastOutcome = "none"
    /\ createdBySubmit = {}

NoSettings == [loaded |-> FALSE, timesheetPeriod |-> 0, lunchDefaultMinutes |-> 0]

\* TimesheetPage not mounted
IdleSheet ==
    /\ settings = NoSettings
    /\ weekEnding = 0
    /\ timesheetDays = <<>>
    /\ nextLineId = 1
    /\ sheetEdits = 0

\* fetchCalendarNotes not called
IdleNotes ==
    /\ calendar_notes = {}
    /\ notesMonth = 0
    /\ notesYear = 0
    /\ notesResult = [error |-> "none", rows |-> {}]

\* nothing of the application around the utilities is running
IdleApp ==
    /\ IdleRepeat
    /\ IdleLayout
    /\ daily_logs = <<>>
    /\ IdleLogs
    /\ IdleJob
    /\ IdleSheet
    /\ IdleNotes

----------------------------------------------------------------------------
(* Dates: JavaScript Date, date-fns parseISO and differenceInDays *)

IsLeapYear(y) == (y % 4 = 0 /\ y % 100 # 0) \/ y % 400 = 0

\* a calendar whose February has 28 days in every year
DaysInMonth_FebruaryAlways28(y, m) ==
    IF m = 2 THEN 28
    ELSE IF m \in {4, 6, 9, 11} THEN 30 ELSE 31

DaysInMonth(y, m) ==
    IF m = 2 THEN (IF IsLeapYear(y) THEN 29 ELSE 28)
    ELSE IF m \in {4, 6, 9, 11} THEN 30 ELSE 31

RECURSIVE DaysBeforeMonth(_, _)
DaysBeforeMonth(y, m) ==
    IF m = 1 THEN 0 ELSE DaysBeforeMonth(y, m - 1) + DaysInMonth(y, m - 1)

\* day number of the civil date y-m-d (m in 1..12)
DayNumber(y, m, d) ==
    365 * (y - 1) + ((y - 1) \div 4) - ((y - 1) \div 100) + ((y - 1) \div 400)
        + DaysBeforeMonth(y, m) + d

InvalidDate == [valid |-> FALSE, day |-> 0, mins |-> 0]

\* values of the dueDate parameter: string | null | undefined
AbsentDue == [kind |-> "absent", y |-> 0, m |-> 0, d |-> 0, hh |-> 0, mi |-> 0]
EmptyDue == [kind |-> "empty", y |-> 0, m |-> 0, d |-> 0, hh |-> 0, mi |-> 0]
GarbageDue == [kind |-> "garbage", y |-> 0, m |-> 0, d |-> 0, hh |-> 0, mi |-> 0]
DateString(y, m, d) ==
    [kind |-> "date", y |-> y, m |-> m, d |-> d, hh |-> 0, mi |-> 0]
DateTimeString(y, m, d, hh, mi) ==
    [kind |-> "datetime", y |-> y, m |-> m, d |-> d, hh |-> hh, mi |-> mi]

\* !dueDate: null, undefined and the empty string are falsy
IsFalsy(s) == s.kind \in {"absent", "empty"}

\* date-fns parseISO: "yyyy-MM-dd" is local midnight of that date,
\* "yyyy-MM-ddTHH:mm" that local time; fields out of range, or any other text,
\* give Invalid Date
parseISO(s) ==
    IF s.kind \notin {"date", "datetime"} THEN InvalidDate
    ELSE IF ~(s.m \in 1..12 /\ s.d \in 1..DaysInMonth(s.y, s.m)) THEN InvalidDate
    ELSE IF ~(s.hh \in 0..23 /\ s.mi \in 0..59) THEN InvalidDate
    ELSE [valid |-> TRUE, day |-> DayNumber(s.y, s.m, s.d), mins |-> s.hh * 60 + s.mi]

\* today left at the time the clock shows
StartOfDay_TimeKept(t) == t

\* Date.prototype.setHours(0, 0, 0, 0)
StartOfDay(t) == [t EXCEPT !.mins = 0]

\* date-fns compareLocalAsc: -1, 0 or 1
CompareLocalAsc(a, b) ==
    IF a.day < b.day \/ (a.day = b.day /\ a.mins < b.mins) THEN -1
    ELSE IF a.day = b.day /\ a.mins = b.mins THEN 0
    ELSE 1

Abs(x) == IF x < 0 THEN -x ELSE x

\* the number of full days apart, whichever of the two dates is the later
differenceInDays_Apart(left, right) ==
    IF ~left.valid \/ ~right.valid THEN [nan |-> TRUE, v |-> 0]
    ELSE LET sign == CompareLocalAsc(left, right)
             difference == Abs(left.day - right.day)
             moved == [left EXCEPT !.day = left.day - sign * difference]
             isLastDayNotFull == CompareLocalAsc(moved, right) = -sign
         IN  [nan |-> FALSE,
              v |-> difference - (IF isLastDayNotFull THEN 1 ELSE 0)]

\* date-fns differenceInDays(dateLeft, dateRight): the number of full days
\* between the two, truncated towards zero; NaN when either date is invalid
differenceInDays(left, right) ==
    IF ~left.valid \/ ~right.valid THEN [nan |-> TRUE, v |-> 0]
    ELSE LET sign == CompareLocalAsc(left, right)
             difference == Abs(left.day - right.day)
             moved == [left EXCEPT !.day = left.day - sign * difference]
             isLastDayNotFull == CompareLocalAsc(moved, right) = -sign
         IN  [nan |-> FALSE,
              v |-> sign * (difference - (IF isLastDayNotFull THEN 1 ELSE 0))]

\* x <= n in JavaScript: false when x is NaN
LeqJS(x, n) == ~x.nan /\ x.v <= n

\* calculatePriority with `daysUntil < 3` for the first comparison
calculatePriority_HighBelowThree(due, clock) ==
    IF IsFalsy(due) THEN "low"
    ELSE LET today == StartOfDay(clock)
             daysUntil == differenceInDays(parseISO(due), today)
         IN  IF LeqJS(daysUntil, 2) THEN "high"
             ELSE IF LeqJS(daysUntil, 7) THEN "medium"
             ELSE "low"

\* calculatePriority with `daysUntil < 7` for the second comparison
calculatePriority_MediumBelowSeven(due, clock) ==
    IF IsFalsy(due) THEN "low"
    ELSE LET today == StartOfDay(clock)
             daysUntil == differenceInDays(parseISO(due), today)
         IN  IF LeqJS(daysUntil, 3) THEN "high"
             ELSE IF LeqJS(daysUntil, 6) THEN "medium"
             ELSE "low"

\* calculatePriority that counts the week from tomorrow: `daysUntil <= 8`
calculatePriority_MediumToEight(due, clock) ==
    IF IsFalsy(due) THEN "low"
    ELSE LET today == StartOfDay(clock)
             daysUntil == differenceInDays(parseISO(due), today)
         IN  IF LeqJS(daysUntil, 3) THEN "high"
             ELSE IF LeqJS(daysUntil, 8) THEN "medium"
             ELSE "low"

\* calculatePriority without the `!dueDate` guard and with new Date(dueDate)
\* for the conversion: new Date(null) is 1970-01-01
calculatePriority_NoAbsentGuard(due, clock) ==
    LET today == StartOfDay(clock)
        parsed == IF due.kind = "absent"
                  THEN [valid |-> TRUE, day |-> DayNumber(1970, 1, 1), mins |-> 0]
                  ELSE parseISO(due)
        daysUntil == differenceInDays(parsed, today)
    IN  IF LeqJS(daysUntil, 3) THEN "high"
        ELSE IF LeqJS(daysUntil, 7) THEN "medium"
        ELSE "low"

\* calculatePriority over a conversion that throws on a text that is no date
calculatePriority_ThrowsOnInvalid(due, clock) ==
    IF IsFalsy(due) THEN "low"
    ELSE IF ~parseISO(due).valid THEN "RangeError"
    ELSE LET today == StartOfDay(clock)
             daysUntil == differenceInDays(parseISO(due), today)
         IN  IF LeqJS(daysUntil, 3) THEN "high"
             ELSE IF LeqJS(daysUntil, 7) THEN "medium"
             ELSE "low"

calculatePriority(due, clock) ==
    IF IsFalsy(due) THEN "low"
    ELSE LET today == StartOfDay(clock)
             daysUntil == differenceInDays(parseISO(due), today)
         IN  IF LeqJS(daysUntil, 3) THEN "high"
             ELSE IF LeqJS(daysUntil, 7) THEN "medium"
             ELSE "low"

----------------------------------------------------------------------------
(* Calendar grid: getMonthDays and getCalendarGrid *)

\* new Date(year, monthIndex, day), local midnight: a year of 0..99 stands for
\* 1900 + year, and a monthIndex outside 0..11 or a day outside the month
\* carries into the neighbouring months and years
NewDate(y, monthIndex, d) ==
    LET fullYear == IF y \in 0..99 THEN 1900 + y ELSE y
        ym == fullYear + (monthIndex \div 12)
        mn == monthIndex % 12
    IN  [valid |-> TRUE, day |-> DayNumber(ym, mn + 1, 1) + d - 1, mins |-> 0]

\* Date.prototype.getDay(): 0 = Sunday .. 6 = Saturday (0001-01-01, day number
\* 1, is a Monday)
GetDay(t) == t.day % 7

\* the civil date [y, m, d] of a day number (m in 1..12)
CivilOfDay(n) ==
    LET z == n + 305
        era == z \div 146097
        doe == z - era * 146097
        yoe == (doe - (doe \div 1460) + (doe \div 36524) - (doe \div 146096)) \div 365
        doy == doe - (365 * yoe + (yoe \div 4) - (yoe \div 100))
        mp == (5 * doy + 2) \div 153
        dd == doy - ((153 * mp + 2) \div 5) + 1
        mm == IF mp < 10 THEN mp + 3 ELSE mp - 9
    IN  [y |-> yoe + era * 400 + (IF mm <= 2 THEN 1 ELSE 0), m |-> mm, d |-> dd]

\* Date.prototype.getFullYear(), getMonth() (0 = January) and getDate()
GetFullYear(t) == CivilOfDay(t.day).y
GetMonth(t) == CivilOfDay(t.day).m - 1
GetDate(t) == CivilOfDay(t.day).d

\* date-fns eachDayOfInterval({start, end}): every day from start to end at
\* local midnight; RangeError when start is after end
eachDayOfInterval(s, e) ==
    IF s.day > e.day THEN [error |-> "RangeError", days |-> <<>>]
    ELSE [error |-> "none",
          days |-> [i \in 1..(e.day - s.day + 1) |->
                        [valid |-> TRUE, day |-> s.day + i - 1, mins |-> 0]]]

\* getMonthDays with the first day of the next month for the end
getMonthDays_EndFirstOfNext(y, mo) ==
    eachDayOfInterval(NewDate(y, mo, 1), NewDate(y, mo + 1, 1))

\* getMonthDays with day 0 for the start
getMonthDays_StartDayZero(y, mo) ==
    eachDayOfInterval(NewDate(y, mo, 0), NewDate(y, mo + 1, 0))

getMonthDays(y, mo) ==
    eachDayOfInterval(NewDate(y, mo, 1), NewDate(y, mo + 1, 0))

\* a slot of the grid: null or a Date
NullSlot == [null |-> TRUE, date |-> InvalidDate]
DateSlot(t) == [null |-> FALSE, date |-> t]

\* days[0].getDay() with Monday for the first column
FirstDayOfWeek_MondayFirst(days) == (GetDay(days[1]) + 6) % 7

\* days[0].getDay()
FirstDayOfWeek(days) == GetDay(days[1])

\* pad start with `i <= firstDayOfWeek` for the loop test
PadStart_OneMore(firstDayOfWeek) == [i \in 1..(firstDayOfWeek + 1) |-> NullSlot]

\* pad start: for (i = 0; i < firstDayOfWeek; i++) week.push(null)
PadStart(firstDayOfWeek) == [i \in 1..firstDayOfWeek |-> NullSlot]

\* for (const d of days): push d, and push the week to the grid when it holds
\* 7 slots; the result is <<grid, week>> after the last day
RECURSIVE PackDays(_, _, _, _)
PackDays(days, i, week, grid) ==
    IF i > Len(days) THEN <<grid, week>>
    ELSE LET w == Append(week, DateSlot(days[i]))
         IN  IF Len(w) = 7
             THEN PackDays(days, i + 1, <<>>, Append(grid, w))
             ELSE PackDays(days, i + 1, w, grid)

\* while (week.length < 7) week.push(null)
RECURSIVE FillWeek(_)
FillWeek(week) == IF Len(week) < 7 THEN FillWeek(Append(week, NullSlot)) ELSE week

\* pad end without the while loop
PadEnd_NoFill(grid, week) ==
    IF Len(week) > 0 THEN Append(grid, week) ELSE grid

\* pad end: if (week.length > 0) { fill; grid.push(week) }
PadEnd(grid, week) ==
    IF Len(week) > 0 THEN Append(grid, FillWeek(week)) ELSE grid

\* the result is [error, weeks]: an error of eachDayOfInterval leaves the call
getCalendarGrid(y, mo) ==
    LET got == getMonthDays(y, mo)
    IN  IF got.error # "none" THEN [error |-> got.error, weeks |-> <<>>]
        ELSE LET packed == PackDays(got.days, 1, PadStart(FirstDayOfWeek(got.days)), <<>>)
             IN  [error |-> "none", weeks |-> PadEnd(packed[1], packed[2])]

----------------------------------------------------------------------------
(* Dashboard: allIncompleteFlat *)

\* items.push({...row, _type, _dueDate}) for the rows of one fetched list;
\* pos is the place of the row in that list
ItemsOf(rows, type) ==
    [i \in 1..Len(rows) |-> [type |-> type, pos |-> i, dueDate |-> rows[i]]]

\* .map(i => ({ ...i, _priority: calculatePriority(i._dueDate) }))
WithPriority(items, clock) ==
    [i \in 1..Len(items) |->
        [type |-> items[i].type, pos |-> items[i].pos, dueDate |-> items[i].dueDate,
         priority |-> calculatePriority(items[i].dueDate, clock)]]

\* .filter(i => priorityFilter === 'all' || i._priority === priorityFilter)
FilterByPriority(items, filter) ==
    LET Keep(x) == filter = "all" \/ x.priority = filter
    IN  SelectSeq(items, Keep)

\* const order = { high: 0, medium: 1, low: 2 }
PriorityOrder(p) == CASE p = "high" -> 0 [] p = "medium" -> 1 [] p = "low" -> 2

\* the comparator with its operands exchanged
ComparePriority_Exchanged(a, b) == PriorityOrder(b.priority) - PriorityOrder(a.priority)

\* (a, b) => order[a._priority] - order[b._priority]
ComparePriority(a, b) == PriorityOrder(a.priority) - PriorityOrder(b.priority)

\* x put into a sorted sequence behind every element that does not compare
\* greater than it
RECURSIVE InsertStable(_, _)
InsertStable(sorted, x) ==
    IF sorted = <<>> THEN <<x>>
    ELSE IF ComparePriority(Head(sorted), x) > 0 THEN <<x>> \o sorted
    ELSE <<Head(sorted)>> \o InsertStable(Tail(sorted), x)

\* Array.prototype.sort(compare): a stable sort (ECMAScript 2019)
RECURSIVE SortFrom(_, _, _)
SortFrom(items, i, sorted) ==
    IF i > Len(items) THEN sorted
    ELSE SortFrom(items, i + 1, InsertStable(sorted, items[i]))
SortByPriority(items) == SortFrom(items, 1, <<>>)

\* the useMemo callback of allIncompleteFlat
allIncompleteFlat(inc, filter, clock) ==
    IF ~inc.loaded THEN <<>>
    ELSE LET items == ItemsOf(inc.activities, "activity")
                      \o ItemsOf(inc.materials, "material")
                      \o ItemsOf(inc.equipment, "equipment")
                      \o ItemsOf(inc.crew, "crew")
         IN  SortByPriority(FilterByPriority(WithPriority(items, clock), filter))

----------------------------------------------------------------------------
(* Hours: calculateHours and its caller lineHours *)

Digits == {"0", "1", "2", "3", "4", "5", "6", "7", "8", "9"}

DigitValue(c) ==
    CASE c = "0" -> 0 [] c = "1" -> 1 [] c = "2" -> 2 [] c = "3" -> 3
      [] c = "4" -> 4 [] c = "5" -> 5 [] c = "6" -> 6 [] c = "7" -> 7
      [] c = "8" -> 8 [] c = "9" -> 9

\* the test with /^\d{1,2}:\d{2}$/: a single hour digit is let through
TestHHMM_OneDigitHour(s) ==
    \/ /\ Len(s) = 5
       /\ s[1] \in Digits
       /\ s[2] \in Digits
       /\ s[3] = ":"
       /\ s[4] \in Digits
       /\ s[5] \in Digits
    \/ /\ Len(s) = 4
       /\ s[1] \in Digits
       /\ s[2] = ":"
       /\ s[3] \in Digits
       /\ s[4] \in Digits

\* /^\d{2}:\d{2}$/.test(s): exactly two digits, a colon, two digits
TestHHMM(s) ==
    /\ Len(s) = 5
    /\ s[1] \in Digits
    /\ s[2] \in Digits
    /\ s[3] = ":"
    /\ s[4] \in Digits
    /\ s[5] \in Digits

\* index of the first ':' of s, or 0
RECURSIVE FirstColonFrom(_, _)
FirstColonFrom(s, i) ==
    IF i > Len(s) THEN 0
    ELSE IF s[i] = ":" THEN i
    ELSE FirstColonFrom(s, i + 1)

\* the first two parts of s.split(':')
SplitColon(s) ==
    LET i == FirstColonFrom(s, 1)
        rest == SubSeq(s, i + 1, Len(s))
        j == FirstColonFrom(rest, 1)
    IN  <<SubSeq(s, 1, i - 1), IF j = 0 THEN rest ELSE SubSeq(rest, 1, j - 1)>>

\* Number(s) of a string of decimal digits (Number("") is 0)
RECURSIVE NumberOf(_)
NumberOf(s) ==
    IF Len(s) = 0 THEN 0
    ELSE 10 * NumberOf(SubSeq(s, 1, Len(s) - 1)) + DigitValue(s[Len(s)])

\* hh * 60 + mm of a string that passed the test
MinutesOf(s) ==
    LET parts == SplitColon(s)
    IN  NumberOf(parts[1]) * 60 + NumberOf(parts[2])

Max(a, b) == IF a >= b THEN a ELSE b

\* Math.floor(total / 15) in place of Math.round
RoundQuarter_Floor(total) == total \div 15

\* Math.round(total / 15) for an integer total >= 0: floor(total / 15 + 0.5)
RoundQuarter(total) == (2 * total + 15) \div 30

\* the default parameter: lunchMinutes is 0 when the argument is omitted
LunchValue(arg) == IF arg.given THEN arg.v ELSE 0

\* calculateHours without the line that moves an earlier finish to the next day
calculateHours_NoWrap(s, f, lunchMinutes) ==
    IF ~TestHHMM(s) \/ ~TestHHMM(f) THEN 0
    ELSE LET startMins == MinutesOf(s)
             finishMins == MinutesOf(f)
             total == Max(0, finishMins - startMins - lunchMinutes)
         IN  RoundQuarter(total) * 25

\* calculateHours without Math.max(0, ...)
calculateHours_NoFloor(s, f, lunchMinutes) ==
    IF ~TestHHMM(s) \/ ~TestHHMM(f) THEN 0
    ELSE LET startMins == MinutesOf(s)
             finishMins0 == MinutesOf(f)
             finishMins == IF finishMins0 < startMins
                           THEN finishMins0 + 24 * 60 ELSE finishMins0
             total == finishMins - startMins - lunchMinutes
         IN  RoundQuarter(total) * 25

\* the result is 100 * hours: Math.round(total / 15) * 15 / 60 hours
calculateHours(s, f, lunchMinutes) ==
    IF ~TestHHMM(s) \/ ~TestHHMM(f) THEN 0
    ELSE LET startMins == MinutesOf(s)
             finishMins0 == MinutesOf(f)
             finishMins == IF finishMins0 < startMins
                           THEN finishMins0 + 24 * 60 ELSE finishMins0
             total == Max(0, finishMins - startMins - lunchMinutes)
         IN  RoundQuarter(total) * 25

\* TimesheetPage.lineHours
lineHours(l) ==
    calculateHours(l.startTime, l.finishTime, IF l.lunch THEN l.lunchMinutes ELSE 0)

----------------------------------------------------------------------------
(* Inputs of the priority specification *)

\* the clock starts on one of NowDays consecutive days from 2024-02-24 on
\* (the window crosses the leap day), at one of three times of day
NowDays == 10
NowTimes == {0, 810, 1439}
FirstNowDay == DayNumber(2024, 2, 24)
NowSet ==
    {[valid |-> TRUE, day |-> FirstNowDay + k, mins |-> t] :
        k \in 0..(NowDays - 1), t \in NowTimes}

\* due dates: every yyyy-MM-dd with MM in 02..03 and dd in 01..31 of 2024
\* (02-30 and 02-31 are not dates), alone or with a time of day
DueYears == {2024}
DueMonths == {2, 3}
DueTimes == {<<0, 0>>, <<12, 0>>, <<23, 59>>}
DueInputs ==
    {AbsentDue, EmptyDue, GarbageDue}
    \cup {DateString(y, m, d) : y \in DueYears, m \in DueMonths, d \in 1..31}
    \cup {DateTimeString(y, m, d, t[1], t[2]) :
            y \in DueYears, m \in DueMonths, d \in 1..31, t \in DueTimes}

IdleHours ==
    /\ start = <<>>
    /\ finish = <<>>
    /\ lunchArg = [given |-> FALSE, v |-> 0]
    /\ line = [startTime |-> <<>>, finishTime |-> <<>>, lunch |-> FALSE,
               lunchMinutes |-> 0]
    /\ caller = "none"
    /\ hours = 0

InitPriority ==
    /\ pc = "ready"
    /\ now \in NowSet
    /\ dueDate \in DueInputs
    /\ priority = "none"
    /\ IdleHours
    /\ IdleGrid
    /\ IdleDashboard
    /\ IdleApp

\* a caller evaluates calculatePriority(dueDate) against the current clock
CallCalculatePriority ==
    /\ pc = "ready"
    /\ pc' = "done"
    /\ priority' = calculatePriority(dueDate, now)
    /\ UNCHANGED <<now, dueDate>>
    /\ UNCHANGED <<hoursVars, gridVars, dashboardVars, appVars>>

NextPriority == CallCalculatePriority

SpecPriority == InitPriority /\ [][NextPriority]_vars

----------------------------------------------------------------------------
(* Inputs of the hours specification *)

HourTexts ==
    {<<"0", "0">>, <<"0", "6">>, <<"0", "7">>, <<"0", "9">>, <<"1", "6">>,
     <<"2", "2">>, <<"2", "3">>, <<"2", "4">>, <<"9", "9">>}
MinuteTexts ==
    {<<"0", "0">>, <<"0", "7">>, <<"0", "8">>, <<"1", "0">>, <<"3", "0">>,
     <<"5", "9">>, <<"6", "0">>, <<"9", "9">>}

\* every text hh:mm over the digit pairs above
ShapedTimes == {h \o <<":">> \o m : h \in HourTexts, m \in MinuteTexts}

\* what String(undefined) gives the test when the argument is missing
MissingTime == <<"u", "n", "d", "e", "f", "i", "n", "e", "d">>

\* "", "7:00", "0700", "07:0", "07:000", "07-00", "x7:00", "07:00:00", missing
MalformedTimes ==
    {<<>>,
     <<"7", ":", "0", "0">>,
     <<"0", "7", "0", "0">>,
     <<"0", "7", ":", "0">>,
     <<"0", "7", ":", "0", "0", "0">>,
     <<"0", "7", "-", "0", "0">>,
     <<"x", "7", ":", "0", "0">>,
     <<"0", "7", ":", "0", "0", ":", "0", "0">>,
     MissingTime}

TimeInputs == ShapedTimes \cup MalformedTimes

\* lunchMinutes: every integer of -MaxLunch..MaxLunch and some longer breaks
MaxLunch == 8
LunchValues == (-MaxLunch..MaxLunch) \cup {-30, 30, 45, 60, 1500}
LunchArgs ==
    {[given |-> TRUE, v |-> l] : l \in LunchValues} \cup {[given |-> FALSE, v |-> 0]}

\* a timesheet line: the lunch select offers 30 and 60 minutes
LineInputs ==
    [startTime : TimeInputs, finishTime : TimeInputs,
     lunch : BOOLEAN, lunchMinutes : {30, 60}]

BlankLine ==
    [startTime |-> <<>>, finishTime |-> <<>>, lunch |-> FALSE, lunchMinutes |-> 0]

IdlePriority ==
    /\ now = [valid |-> TRUE, day |-> FirstNowDay, mins |-> 0]
    /\ dueDate = AbsentDue
    /\ priority = "none"

InitHours ==
    /\ pc = "ready"
    /\ hours = 0
    /\ IdlePriority
    /\ IdleGrid
    /\ IdleDashboard
    /\ \/ /\ caller = "direct"
          /\ start \in TimeInputs
          /\ finish \in TimeInputs
          /\ lunchArg \in LunchArgs
          /\ line = BlankLine
       \/ /\ caller = "lineHours"
          /\ line \in LineInputs
          /\ start = <<>>
          /\ finish = <<>>
          /\ lunchArg = [given |-> FALSE, v |-> 0]
    /\ IdleApp

\* calculateHours(start, finish, lunchMinutes) or calculateHours(start, finish)
CallCalculateHours ==
    /\ pc = "ready"
    /\ caller = "direct"
    /\ pc' = "done"
    /\ hours' = calculateHours(start, finish, LunchValue(lunchArg))
    /\ UNCHANGED <<start, finish, lunchArg, line, caller>>
    /\ UNCHANGED <<priorityVars, gridVars, dashboardVars, appVars>>

\* lineHours(line): the arguments it hands to calculateHours are recorded
CallLineHours ==
    /\ pc = "ready"
    /\ caller = "lineHours"
    /\ pc' = "done"
    /\ start' = line.startTime
    /\ finish' = line.finishTime
    /\ lunchArg' = [given |-> TRUE, v |-> IF line.lunch THEN line.lunchMinutes ELSE 0]
    /\ hours' = lineHours(line)
    /\ UNCHANGED <<line, caller>>
    /\ UNCHANGED <<priorityVars, gridVars, dashboardVars, appVars>>

NextHours == CallCalculateHours \/ CallLineHours

SpecHours == InitHours /\ [][NextHours]_vars

----------------------------------------------------------------------------
(* Inputs of the grid specification *)

\* years: a two-digit year, century years that are and are not leap years,
\* and the years around 2024
GridYears == {99, 1900, 2000, 2023, 2024, 2025, 2026, 2100}

\* months: 0..11 and MonthSlack values on either side
MonthSlack == 2
GridMonths == (-MonthSlack)..(11 + MonthSlack)

InitGrid ==
    /\ pc = "ready"
    /\ year \in GridYears
    /\ month \in GridMonths
    /\ gridResult = [error |-> "none", weeks |-> <<>>]
    /\ IdlePriority
    /\ IdleHours
    /\ IdleDashboard
    /\ IdleApp

\* CalendarPage and DailyLogsPage render getCalendarGrid(year, month)
CallGetCalendarGrid ==
    /\ pc = "ready"
    /\ pc' = "done"
    /\ gridResult' = getCalendarGrid(year, month)
    /\ UNCHANGED <<year, month>>
    /\ UNCHANGED <<priorityVars, hoursVars, dashboardVars, appVars>>

NextGrid == CallGetCalendarGrid

SpecGrid == InitGrid /\ [][NextGrid]_vars

----------------------------------------------------------------------------
(* Inputs of the dashboard specification *)

\* due dates of the fetched rows: overdue, in 6 days, in 25 days (the clock
\* shows 2024-02-24), and none
DashboardDues ==
    {DateString(2024, 2, 20), DateString(2024, 3, 1), DateString(2024, 3, 20), AbsentDue}

\* .order('due_date'): rows arrive by ascending date, rows without one last
DueSortKey(d) == IF d = AbsentDue THEN DayNumber(9999, 12, 31) ELSE DayNumber(d.y, d.m, d.d)
IsFetchedOrder(rows) ==
    \A i \in 1..Len(rows) : \A j \in 1..Len(rows) :
        i < j => DueSortKey(rows[i]) <= DueSortKey(rows[j])

\* the lists of up to n rows a fetch can return
RowsUpTo(n) ==
    {rows \in UNION {[1..k -> DashboardDues] : k \in 0..n} : IsFetchedOrder(rows)}

\* at most MaxActivities activities, and at most one row of each other kind
MaxActivities == 2
OtherRows == RowsUpTo(1)

NotLoaded ==
    [loaded |-> FALSE, activities |-> <<>>, materials |-> <<>>,
     equipment |-> <<>>, crew |-> <<>>]

IncompleteInputs ==
    {NotLoaded}
    \cup {[loaded |-> TRUE, activities |-> a, materials |-> m, equipment |-> e, crew |-> c] :
            a \in RowsUpTo(MaxActivities), m \in OtherRows, e \in OtherRows, c \in OtherRows}

InitDashboard ==
    /\ pc = "ready"
    /\ incomplete \in IncompleteInputs
    /\ priorityFilter \in {"all", "high", "medium", "low"}
    /\ flat = <<>>
    /\ IdlePriority
    /\ IdleHours
    /\ IdleGrid
    /\ IdleApp

\* the memo is computed from incomplete and priorityFilter
ComputeAllIncompleteFlat ==
    /\ pc = "ready"
    /\ pc' = "done"
    /\ flat' = allIncompleteFlat(incomplete, priorityFilter, now)
    /\ UNCHANGED <<incomplete, priorityFilter>>
    /\ UNCHANGED <<priorityVars, hoursVars, gridVars, appVars>>

NextDashboard == ComputeAllIncompleteFlat

SpecDashboard == InitDashboard /\ [][NextDashboard]_vars

----------------------------------------------------------------------------
(* Priority tiers against the calendar distance of the due date *)

\* the due date names a real calendar date (with or without a time of day)
IsRealDate(s) ==
    /\ s.kind \in {"date", "datetime"}
    /\ s.m \in 1..12
    /\ s.d \in 1..DaysInMonth(s.y, s.m)

\* whole-day distance from the current day to the day of the due date
CalendarDaysUntil == DayNumber(dueDate.y, dueDate.m, dueDate.d) - now.day

PriorityCalled == pc = "done" /\ priority # "none"

\* C1: a due date at most 3 whole days after today, overdue dates included,
\* is given the tier 'high'
C1_HighWithinThreeDays ==
    (PriorityCalled /\ IsRealDate(dueDate) /\ CalendarDaysUntil <= 3)
        => priority = "high"

C1_Witness ==
    /\ PriorityCalled
    /\ IsRealDate(dueDate)
    /\ CalendarDaysUntil = 3
    /\ dueDate.kind = "datetime"
    /\ now.mins > 0
    /\ priority = "high"

\* C2: the tier is 'medium' exactly when the due date is 4, 5, 6 or 7 whole
\* days after today
C2_MediumExactlyFourToSeven ==
    PriorityCalled =>
        (priority = "medium" <=> (IsRealDate(dueDate) /\ CalendarDaysUntil \in 4..7))

C2_Witness ==
    /\ PriorityCalled
    /\ IsRealDate(dueDate)
    /\ CalendarDaysUntil = 7
    /\ priority = "medium"

\* C3: a due date more than 7 whole days after today is given the tier 'low'
C3_LowBeyondSevenDays ==
    (PriorityCalled /\ IsRealDate(dueDate) /\ CalendarDaysUntil > 7)
        => priority = "low"

C3_Witness ==
    /\ PriorityCalled
    /\ IsRealDate(dueDate)
    /\ CalendarDaysUntil = 8
    /\ priority = "low"

\* C4: an absent due date (null or undefined) is given the tier 'low',
\* whatever the clock shows
C4_AbsentIsLow ==
    (PriorityCalled /\ dueDate = AbsentDue) => priority = "low"

C4_Witness ==
    /\ PriorityCalled
    /\ dueDate = AbsentDue
    /\ now.day > FirstNowDay
    /\ priority = "low"

----------------------------------------------------------------------------
(* Worked hours against the arithmetic on minutes since midnight *)

HoursCalled == pc = "done" /\ caller \in {"direct", "lineHours"}

\* two digits, a colon, two digits
HasShapeHHMM(t) == t \in ShapedTimes

\* minutes since midnight of a text of that shape
ClockMinutes(t) ==
    (10 * DigitValue(t[1]) + DigitValue(t[2])) * 60
        + 10 * DigitValue(t[4]) + DigitValue(t[5])

\* a wall-clock time of the 24-hour clock: 00:00 .. 23:59
IsWallClock(t) ==
    /\ HasShapeHHMM(t)
    /\ 10 * DigitValue(t[1]) + DigitValue(t[2]) <= 23
    /\ 10 * DigitValue(t[4]) + DigitValue(t[5]) <= 59

BothShaped == HasShapeHHMM(start) /\ HasShapeHHMM(finish)

\* length of the shift, a finish earlier than the start being on the next day
ShiftMinutes ==
    IF ClockMinutes(finish) < ClockMinutes(start)
    THEN ClockMinutes(finish) + 1440 - ClockMinutes(start)
    ELSE ClockMinutes(finish) - ClockMinutes(start)

\* x floored at 0
AtLeastZero(x) == IF x < 0 THEN 0 ELSE x

\* the result in minutes (the result is a multiple of 0.25 h = 15 min)
HoursAsMinutes == (hours * 3) \div 5

\* m is the multiple of 15 nearest to raw, a half rounding up
IsNearestQuarter(m, raw) ==
    /\ m % 15 = 0
    /\ 2 * (m - raw) <= 15
    /\ 2 * (raw - m) < 15

\* C5: a finish earlier than the start is taken on the next day (1440 minutes
\* are added to it), any other finish as it is: without lunch the result is
\* the length of that shift, to the quarter of an hour
C5_OvernightWraps ==
    (HoursCalled /\ BothShaped /\ LunchValue(lunchArg) = 0)
        => /\ IsNearestQuarter(HoursAsMinutes, AtLeastZero(ShiftMinutes))
           /\ hours * 3 = HoursAsMinutes * 5
           /\ (IsWallClock(start) /\ IsWallClock(finish)
                 /\ ClockMinutes(finish) < ClockMinutes(start))
                => IsNearestQuarter(HoursAsMinutes,
                       ClockMinutes(finish) + 1440 - ClockMinutes(start))

\* 22:00 to 06:00 without lunch gives 8.0 hours
C5_Witness ==
    /\ HoursCalled
    /\ start = <<"2", "2", ":", "0", "0">>
    /\ finish = <<"0", "6", ":", "0", "0">>
    /\ LunchValue(lunchArg) = 0
    /\ hours = 800

\* C6: the result is a whole multiple of 0.25 hours, the multiple of 15
\* minutes nearest to max(0, finish - start - lunch), halves rounding up
C6_RoundsToNearestQuarter ==
    (HoursCalled /\ BothShaped)
        => /\ hours % 25 = 0
           /\ IsNearestQuarter(HoursAsMinutes,
                               AtLeastZero(ShiftMinutes - LunchValue(lunchArg)))

\* 09:00 to 09:10 gives 0.25 hours
C6_Witness ==
    /\ HoursCalled
    /\ start = <<"0", "9", ":", "0", "0">>
    /\ finish = <<"0", "9", ":", "1", "0">>
    /\ LunchValue(lunchArg) = 0
    /\ hours = 25

\* C7: the result is never negative; a lunch longer than the shift gives 0
C7_NeverNegative ==
    HoursCalled =>
        /\ hours >= 0
        /\ (BothShaped /\ LunchValue(lunchArg) >= ShiftMinutes) => hours = 0

C7_Witness ==
    /\ HoursCalled
    /\ BothShaped
    /\ ShiftMinutes > 0
    /\ LunchValue(lunchArg) > ShiftMinutes
    /\ hours = 0

\* C8: lunch is deducted only when lunchMinutes is positive: a non-positive
\* lunchMinutes gives the result of 0, a positive one is deducted in full
\* before rounding
C8_LunchOnlyWhenPositive ==
    (HoursCalled /\ BothShaped)
        => IsNearestQuarter(HoursAsMinutes,
               AtLeastZero(ShiftMinutes - (IF LunchValue(lunchArg) > 0
                                      THEN LunchValue(lunchArg) ELSE 0)))

\* C9: a start or a finish that does not have the shape HH:MM gives 0
C9_MalformedIsZero ==
    (HoursCalled /\ (start \in MalformedTimes \/ finish \in MalformedTimes))
        => hours = 0

C9_Witness ==
    /\ HoursCalled
    /\ start = <<"7", ":", "0", "0">>
    /\ finish = <<"1", "6", ":", "3", "0">>
    /\ hours = 0

\* C10: a start or a finish of the shape HH:MM that is no wall-clock time (an
\* hour above 23 or a minute above 59) gives 0
C10_NotWallClockIsZero ==
    (HoursCalled /\ BothShaped /\ ~(IsWallClock(start) /\ IsWallClock(finish)))
        => hours = 0

----------------------------------------------------------------------------
(* The calendar grid against the calendar *)

GridCalled == pc = "done" /\ year \in GridYears

MonthInRange == month \in 0..11

Weeks == gridResult.weeks

\* the slots of the grid row by row, left to right
RECURSIVE FlatFrom(_)
FlatFrom(r) == IF r > Len(Weeks) THEN <<>> ELSE Weeks[r] \o FlatFrom(r + 1)
FlatSlots == FlatFrom(1)

IsDateSlot(x) == ~x.null
DateSlots == SelectSeq(FlatSlots, IsDateSlot)

\* number of empty slots before the first date, and position of the last date
LeadingEmpty ==
    Cardinality({i \in 1..Len(FlatSlots) :
                    \A j \in 1..i : FlatSlots[j].null})
LastDateIndex ==
    Cardinality({i \in 1..Len(FlatSlots) :
                    \E j \in i..Len(FlatSlots) : ~FlatSlots[j].null})

\* C11: with month in 0..11, the weekday of every non-empty slot is the index
\* of its column
C11_WeekdayIsColumn ==
    (GridCalled /\ MonthInRange)
        => /\ gridResult.error = "none"
           /\ \A r \in 1..Len(Weeks) : \A c \in 1..Len(Weeks[r]) :
                  ~Weeks[r][c].null => GetDay(Weeks[r][c].date) = c - 1

\* a month that starts on a Wednesday: the first date is in column 3
C11_Witness ==
    /\ GridCalled
    /\ MonthInRange
    /\ Len(Weeks) >= 4
    /\ Weeks[1][3].null
    /\ ~Weeks[1][4].null
    /\ GetDay(Weeks[1][4].date) = 3

\* C12: with month in 0..11, the grid has as many non-empty slots as the
\* month has days in that year
C12_SlotsAreDaysOfMonth ==
    (GridCalled /\ MonthInRange)
        => /\ gridResult.error = "none"
           /\ Len(DateSlots) = DaysInMonth(year, month + 1)

\* February of a century year that is no leap year: 28 slots
C12_Witness ==
    /\ GridCalled
    /\ year = 2100
    /\ month = 1
    /\ Len(DateSlots) = 28

\* C13: every row of the grid has exactly 7 slots
C13_RowsOfSeven ==
    GridCalled =>
        /\ gridResult.error = "none"
        /\ Len(Weeks) >= 4
        /\ \A r \in 1..Len(Weeks) : Len(Weeks[r]) = 7

\* a first row that starts with empty slots and a final row that ends with them
C13_Witness ==
    /\ GridCalled
    /\ Len(Weeks) = 6
    /\ Weeks[1][1].null
    /\ Len(Weeks[1]) = 7
    /\ Weeks[6][7].null
    /\ ~Weeks[6][1].null
    /\ Len(Weeks[6]) = 7

C16_RoundTripYearMonth ==
    (GridCalled /\ MonthInRange)
        => \A i \in 1..Len(DateSlots) :
               /\ GetFullYear(DateSlots[i].date) = year
               /\ GetMonth(DateSlots[i].date) = month

\* C17: with month outside 0..11 the call ends in an InvalidArgument error
\* and returns no grid
C17_MonthOutOfRangeIsFatal ==
    (GridCalled /\ ~MonthInRange)
        => /\ gridResult.error = "InvalidArgument"
           /\ gridResult.weeks = <<>>

----------------------------------------------------------------------------
(* The order of the dashboard's priority feed *)

FeedComputed == pc = "done" /\ incomplete.loaded

\* high before medium before low
TierRank(p) == IF p = "high" THEN 1 ELSE IF p = "medium" THEN 2 ELSE 3

\* the order of the items before sorting: activities, materials, equipment,
\* crew, each in fetched order
KindRank(t) ==
    IF t = "activity" THEN 1 ELSE IF t = "material" THEN 2
    ELSE IF t = "equipment" THEN 3 ELSE 4
WasBefore(x, y) ==
    \/ KindRank(x.type) < KindRank(y.type)
    \/ (x.type = y.type /\ x.pos < y.pos)

FetchedCount ==
    Len(incomplete.activities) + Len(incomplete.materials)
        + Len(incomplete.equipment) + Len(incomplete.crew)

\* C18: in the feed no item precedes an item of a more urgent tier, items of
\* one tier keep the order they had before sorting, and without a filter
\* every fetched item is in the feed
C18_FeedHighFirstStable ==
    FeedComputed =>
        /\ \A i \in 1..Len(flat) : \A j \in 1..Len(flat) :
               i < j =>
                  /\ TierRank(flat[i].priority) <= TierRank(flat[j].priority)
                  /\ flat[i].priority = flat[j].priority => WasBefore(flat[i], flat[j])
        /\ priorityFilter = "all" => Len(flat) = FetchedCount

\* a crew item of tier high has moved in front of a low activity, behind a
\* high activity it followed before
C18_Witness ==
    /\ FeedComputed
    /\ priorityFilter = "all"
    /\ Len(flat) >= 3
    /\ flat[1].type = "activity"
    /\ flat[1].priority = "high"
    /\ flat[2].type = "crew"
    /\ flat[2].priority = "high"
    /\ \E j \in 3..Len(flat) : flat[j].type = "activity" /\ flat[j].priority = "low"

----------------------------------------------------------------------------
(* Priority tiers: time of day of the due date, and texts that are no date *)

\* times of day 00:00, 00:01, 12:00, 13:30, 23:59
TimesOfDay == {<<0, 0>>, <<0, 1>>, <<12, 0>>, <<13, 30>>, <<23, 59>>}

\* C19: every due-date value on the calendar date of dueDate, whatever its
\* time of day, is given the tier of dueDate
C19_TimeOfDayIgnored ==
    (PriorityCalled /\ IsRealDate(dueDate))
        => /\ calculatePriority(DateString(dueDate.y, dueDate.m, dueDate.d), now)
                = priority
           /\ \A t \in TimesOfDay :
                  calculatePriority(
                      DateTimeString(dueDate.y, dueDate.m, dueDate.d, t[1], t[2]), now)
                    = priority

\* late on the fourth day from today, the clock in the afternoon: 'medium',
\* as for the date alone
C19_Witness ==
    /\ PriorityCalled
    /\ dueDate.kind = "datetime"
    /\ IsRealDate(dueDate)
    /\ dueDate.hh = 23
    /\ CalendarDaysUntil = 4
    /\ now.mins = 810
    /\ priority = "medium"

\* C20: the call ends in one of the three tiers for every input; a text that
\* is no date (or names a day that does not exist) is given 'low'
C20_AlwaysATier ==
    PriorityCalled =>
        /\ priority \in {"high", "medium", "low"}
        /\ (~IsFalsy(dueDate) /\ ~IsRealDate(dueDate)) => priority = "low"

\* the text 2024-02-30
C20_Witness ==
    /\ PriorityCalled
    /\ dueDate.kind = "date"
    /\ dueDate.m = 2
    /\ dueDate.d = 30
    /\ priority = "low"

----------------------------------------------------------------------------
(* The grid of February 2024 *)

\* C22: getCalendarGrid(2024, 1) has 29 non-empty slots, the first of them in
\* column 4 of the first row, and 5 rows
C22_February2024 ==
    (GridCalled /\ year = 2024 /\ month = 1)
        => /\ gridResult.error = "none"
           /\ Len(DateSlots) = 29
           /\ LeadingEmpty = 4
           /\ ~Weeks[1][5].null
           /\ Len(Weeks) = 5

\* the call getCalendarGrid(2024, 1) has returned, its last row ending in
\* two empty slots after the 29th
C22_Witness ==
    /\ GridCalled
    /\ year = 2024
    /\ month = 1
    /\ Len(Weeks) = 5
    /\ ~Weeks[5][5].null
    /\ Weeks[5][6].null
    /\ Weeks[5][7].null

----------------------------------------------------------------------------
(* Repeated calls of calculatePriority while the clock runs *)

\* the due date of one item: absent, no date, a date of February or March
\* 2024, or a late time of day on one of the days around the clock's
RepeatDues ==
    {AbsentDue, GarbageDue}
    \cup {DateString(y, m, d) : y \in DueYears, m \in DueMonths, d \in 1..31}
    \cup {DateTimeString(2024, 2, d, 23, 59) : d \in 24..29}

InitRepeat ==
    /\ pc = "ready"
    /\ now \in NowSet
    /\ dueDate \in RepeatDues
    /\ priority = "none"
    /\ IdleRepeat
    /\ IdleHours
    /\ IdleGrid
    /\ IdleDashboard
    /\ IdleLayout
    /\ daily_logs = <<>>
    /\ IdleLogs
    /\ IdleJob
    /\ IdleSheet
    /\ IdleNotes

\* the instants after t that new Date() can show
LaterInstants(t) ==
    {u \in NowSet : u.day > t.day \/ (u.day = t.day /\ u.mins > t.mins)}

\* time passes: the clock shows a later instant of the same or the next day
ClockAdvances ==
    /\ \E u \in LaterInstants(now) :
          /\ u.day <= now.day + 1
          /\ now' = u
    /\ UNCHANGED <<pc, dueDate, priority, repeatVars>>
    /\ UNCHANGED <<hoursVars, gridVars, dashboardVars>>
    /\ UNCHANGED <<layoutVars, daily_logs, logsVars, jobVars, sheetVars, notesVars>>

\* the first evaluation of calculatePriority(dueDate) for the item
FirstCall ==
    /\ pc = "ready"
    /\ pc' = "done"
    /\ priority' = calculatePriority(dueDate, now)
    /\ firstPriority' = calculatePriority(dueDate, now)
    /\ firstCalledAt' = now
    /\ calledAt' = now
    /\ UNCHANGED <<now, dueDate>>
    /\ UNCHANGED <<hoursVars, gridVars, dashboardVars>>
    /\ UNCHANGED <<layoutVars, daily_logs, logsVars, jobVars, sheetVars, notesVars>>

\* a later render evaluates calculatePriority(dueDate) again, same argument
LaterCall ==
    /\ pc = "done"
    /\ priority' = calculatePriority(dueDate, now)
    /\ calledAt' = now
    /\ UNCHANGED <<pc, now, dueDate, firstPriority, firstCalledAt>>
    /\ UNCHANGED <<hoursVars, gridVars, dashboardVars>>
    /\ UNCHANGED <<layoutVars, daily_logs, logsVars, jobVars, sheetVars, notesVars>>

NextRepeat == ClockAdvances \/ FirstCall \/ LaterCall

SpecRepeat == InitRepeat /\ [][NextRepeat]_vars

\* calculatePriority has been called at least twice with the same argument
CalledTwice == pc = "done" /\ firstPriority # "none" /\ priority # "none"

C28_NeverLessUrgent ==
    CalledTwice => TierRank(priority) <= TierRank(firstPriority)

\* 'low' eight days ahead of the due date, 'high' once it is overdue
C28_Witness ==
    /\ CalledTwice
    /\ IsRealDate(dueDate)
    /\ DayNumber(dueDate.y, dueDate.m, dueDate.d) - firstCalledAt.day = 8
    /\ DayNumber(dueDate.y, dueDate.m, dueDate.d) < calledAt.day
    /\ firstPriority = "low"
    /\ priority = "high"

----------------------------------------------------------------------------
(* AuthProvider and AppLayout *)

Users == {"u1", "u2"}
UserRoles == {"site_manager", "foreman", "safety_officer"}
PageKeys == {"dashboard", "daily-logs", "calendar", "timesheets", "reports",
             "settings"}

\* role-based feature access map
ROLE_ACCESS ==
    [site_manager |-> {"dashboard", "daily-logs", "calendar", "timesheets",
                       "reports", "settings"},
     foreman |-> {"dashboard", "daily-logs", "calendar", "timesheets", "reports"},
     safety_officer |-> {"dashboard", "daily-logs", "calendar", "reports"}]

\* log ids a page hands to handleNavigate (0: no data)
NavigateData == {0, 1}

\* fetchProfile calls that may be unresolved at the same time
MaxPendingFetches == 2

\* const userRole = (profile?.role as UserRole) || null
userRole == IF profile = NoProfile THEN "none" ELSE profile.role

\* a fetchProfile(userId) call is started and stays unresolved
StartFetchProfile(userId, origin) ==
    /\ Cardinality(pendingFetches) < MaxPendingFetches
    /\ pendingFetches' = pendingFetches \cup {[user_id |-> userId, origin |-> origin]}

InitLayout ==
    /\ pc = "ready"
    /\ profiles \in [Users -> UserRoles]
    /\ user = "none"
    /\ profile = NoProfile
    /\ loading = TRUE
    /\ pendingFetches = {}
    /\ currentPage = "dashboard"
    /\ pageData = 0
    /\ showJobDialog = FALSE
    /\ IdlePriority
    /\ IdleHours
    /\ IdleGrid
    /\ IdleDashboard
    /\ IdleRepeat
    /\ daily_logs = <<>>
    /\ IdleLogs
    /\ IdleJob
    /\ IdleSheet
    /\ IdleNotes

\* initAuth: getSession() resolves with the stored session, or with none
InitAuth ==
    /\ pc = "ready"
    /\ pc' = "done"
    /\ \E s \in Users \cup {"none"} :
          /\ user' = s
          /\ IF s # "none"
             THEN StartFetchProfile(s, "initAuth") /\ UNCHANGED loading
             ELSE loading' = FALSE /\ UNCHANGED pendingFetches
    /\ UNCHANGED <<profiles, profile, currentPage, pageData, showJobDialog>>
    /\ UNCHANGED <<priorityVars, hoursVars, gridVars, dashboardVars>>
    /\ UNCHANGED <<repeatVars, daily_logs, logsVars, jobVars, sheetVars, notesVars>>

\* onAuthStateChange, event SIGNED_IN: the profile is fetched 500 ms later
AuthSignedIn ==
    /\ pc = "done"
    /\ user = "none"
    /\ \E u \in Users :
          /\ user' = u
          /\ StartFetchProfile(u, "signedIn")
    /\ UNCHANGED <<pc, profiles, profile, loading, currentPage, pageData, showJobDialog>>
    /\ UNCHANGED <<priorityVars, hoursVars, gridVars, dashboardVars>>
    /\ UNCHANGED <<repeatVars, daily_logs, logsVars, jobVars, sheetVars, notesVars>>

\* onAuthStateChange, another event that carries a session (token refreshed,
\* user updated): the profile is fetched at once
AuthSessionEvent ==
    /\ pc = "done"
    /\ user # "none"
    /\ StartFetchProfile(user, "event")
    /\ UNCHANGED <<pc, profiles, user, profile, loading, currentPage, pageData,
                   showJobDialog>>
    /\ UNCHANGED <<priorityVars, hoursVars, gridVars, dashboardVars>>
    /\ UNCHANGED <<repeatVars, daily_logs, logsVars, jobVars, sheetVars, notesVars>>

\* onAuthStateChange, an event without a session
AuthNoSession ==
    /\ pc = "done"
    /\ user # "none"
    /\ user' = "none"
    /\ profile' = NoProfile
    /\ UNCHANGED <<pc, profiles, loading, pendingFetches, currentPage, pageData,
                   showJobDialog>>
    /\ UNCHANGED <<priorityVars, hoursVars, gridVars, dashboardVars>>
    /\ UNCHANGED <<repeatVars, daily_logs, logsVars, jobVars, sheetVars, notesVars>>

\* a fetchProfile call resolves, with the row of profiles or with null (no
\* row yet, or a query error), and its caller stores the result
FetchProfileResolves ==
    /\ \E f \in pendingFetches : \E found \in BOOLEAN :
          /\ pendingFetches' = pendingFetches \ {f}
          /\ profile' = IF found
                        THEN [user_id |-> f.user_id, role |-> profiles[f.user_id]]
                        ELSE NoProfile
          /\ loading' = IF f.origin = "initAuth" THEN FALSE ELSE loading
    /\ UNCHANGED <<pc, profiles, user, currentPage, pageData, showJobDialog>>
    /\ UNCHANGED <<priorityVars, hoursVars, gridVars, dashboardVars>>
    /\ UNCHANGED <<repeatVars, daily_logs, logsVars, jobVars, sheetVars, notesVars>>

\* SettingsPage saves the profile with a role: updateProfile writes the row
\* and starts the refresh
UpdateProfile ==
    /\ user # "none"
    /\ currentPage = "settings"
    /\ \E r \in UserRoles : profiles' = [profiles EXCEPT ![user] = r]
    /\ StartFetchProfile(user, "updateProfile")
    /\ UNCHANGED <<pc, user, profile, loading, currentPage, pageData, showJobDialog>>
    /\ UNCHANGED <<priorityVars, hoursVars, gridVars, dashboardVars>>
    /\ UNCHANGED <<repeatVars, daily_logs, logsVars, jobVars, sheetVars, notesVars>>

\* AppLayout.handleNavigate(page, data)
HandleNavigate ==
    /\ \E p \in PageKeys : \E data \in NavigateData :
          IF userRole # "none" /\ p \notin ROLE_ACCESS[userRole]
          THEN UNCHANGED <<currentPage, pageData>>
          ELSE /\ currentPage' = p
               /\ pageData' = data
    /\ UNCHANGED <<pc, profiles, user, profile, loading, pendingFetches, showJobDialog>>
    /\ UNCHANGED <<priorityVars, hoursVars, gridVars, dashboardVars>>
    /\ UNCHANGED <<repeatVars, daily_logs, logsVars, jobVars, sheetVars, notesVars>>

\* onQuickAdd and JobFormDialog's onClose
ToggleJobDialog ==
    /\ showJobDialog' = ~showJobDialog
    /\ UNCHANGED <<pc, profiles, user, profile, loading, pendingFetches, currentPage,
                   pageData>>
    /\ UNCHANGED <<priorityVars, hoursVars, gridVars, dashboardVars>>
    /\ UNCHANGED <<repeatVars, daily_logs, logsVars, jobVars, sheetVars, notesVars>>

\* AppLayout.handleJobCreated(logId)
HandleJobCreated ==
    /\ showJobDialog
    /\ showJobDialog' = FALSE
    /\ currentPage' = "daily-logs"
    /\ pageData' = 1
    /\ UNCHANGED <<pc, profiles, user, profile, loading, pendingFetches>>
    /\ UNCHANGED <<priorityVars, hoursVars, gridVars, dashboardVars>>
    /\ UNCHANGED <<repeatVars, daily_logs, logsVars, jobVars, sheetVars, notesVars>>

\* AppLayout.handleSignOut: AuthProvider.signOut, then back to the dashboard
HandleSignOut ==
    /\ user # "none"
    /\ user' = "none"
    /\ profile' = NoProfile
    /\ currentPage' = "dashboard"
    /\ UNCHANGED <<pc, profiles, loading, pendingFetches, pageData, showJobDialog>>
    /\ UNCHANGED <<priorityVars, hoursVars, gridVars, dashboardVars>>
    /\ UNCHANGED <<repeatVars, daily_logs, logsVars, jobVars, sheetVars, notesVars>>

NextLayout ==
    \/ InitAuth
    \/ AuthSignedIn
    \/ AuthSessionEvent
    \/ AuthNoSession
    \/ FetchProfileResolves
    \/ UpdateProfile
    \/ HandleNavigate
    \/ ToggleJobDialog
    \/ HandleJobCreated
    \/ HandleSignOut

SpecLayout == InitLayout /\ [][NextLayout]_vars

\* C23: whenever a signed-in user has a role, currentPage is one of the pages
\* ROLE_ACCESS lists for that role
C23_PageAllowedForRole ==
    (user # "none" /\ profile # NoProfile)
        => currentPage \in ROLE_ACCESS[profile.role]

\* C24: while no user is signed in, the profile is null
C24_SignedOutProfileNull ==
    (pc = "done" /\ user = "none") => profile = NoProfile

----------------------------------------------------------------------------
(* DailyLogsPage: loading the logs of the selected date and the detail of   *)
(* the selected log.  A log_date ('yyyy-MM-dd') is the day number of its    *)
(* date: the page only compares dates for equality.                         *)

\* todayStr()
LogToday == FirstNowDay

\* the dates of the rows and of the calendar buttons
LogDates == {LogToday - 1, LogToday, LogToday + 1}

\* rows of daily_logs
MaxLogs == 2

\* dates and logs the user picks
MaxSelections == 2

\* the tables of up to MaxLogs rows, ids 1, 2, ...
LogTables ==
    UNION {{[i \in 1..n |-> [id |-> i, project_id |-> 1, log_date |-> dates[i]]] :
                dates \in [1..n -> LogDates]} : n \in 0..MaxLogs}

RowIds(rows) == {rows[i].id : i \in 1..Len(rows)}

\* store.fetchDailyLogs({ date }): the rows of that date
fetchDailyLogs(date) ==
    LET OnDate(r) == r.log_date = date
    IN  SelectSeq(daily_logs, OnDate)

LogsFetch(date) == [kind |-> "logs", date |-> date, id |-> 0]
DetailFetch(id) == [kind |-> "detail", date |-> 0, id |-> id]

\* the effect on [selectedLogId]: loadLogDetail() for the value s of a render
\* whose selectedLogId differs from the previous render's value
DetailStarted(previous, s) ==
    IF s # previous /\ s # 0 THEN {DetailFetch(s)} ELSE {}
DetailCleared(previous, s) == s # previous /\ s = 0

\* the effect on [logs]: the selection it leaves for the rows ls when the
\* render's selectedLogId is s
LogsEffectSelected(ls, s) ==
    IF Len(ls) > 0 /\ s \notin RowIds(ls) THEN ls[1].id
    ELSE IF Len(ls) = 0 THEN 0
    ELSE s

InitLogs ==
    /\ pc = "ready"
    /\ daily_logs \in LogTables
    /\ IdleLogs
    /\ IdlePriority
    /\ IdleHours
    /\ IdleGrid
    /\ IdleDashboard
    /\ IdleRepeat
    /\ IdleLayout
    /\ IdleJob
    /\ IdleSheet
    /\ IdleNotes

\* AppLayout renders <DailyLogsPage initialData={pageData} />: the first
\* render and its effects, in the order of their declaration: loadLogs(),
\* loadLogDetail() (selectedLogId is null), the initialData effect, the
\* effect on [logs] (logs is empty); the state updates are applied in that
\* order
OpenPage ==
    /\ pc = "ready"
    /\ pc' = "done"
    /\ \E logId \in {0} \cup RowIds(daily_logs) :
          LET fromInitialData == IF logId # 0 THEN logId ELSE 0
              fromLogsEffect == LogsEffectSelected(<<>>, fromInitialData)
          IN  /\ initialData' = logId
              /\ selectedLogId' = fromLogsEffect
              /\ inFlight' = {LogsFetch(LogToday)} \cup DetailStarted(0, fromLogsEffect)
    /\ selectedDate' = LogToday
    /\ logs' = <<>>
    /\ currentLog' = 0
    /\ UNCHANGED <<daily_logs, selections>>
    /\ UNCHANGED <<priorityVars, hoursVars, gridVars, dashboardVars>>
    /\ UNCHANGED <<repeatVars, layoutVars, jobVars, sheetVars, notesVars>>

\* the date input or a calendar button: setSelectedDate(d) and
\* setSelectedLogId(null), then the effects on [selectedDate] and
\* [selectedLogId]
ChangeDate ==
    /\ pc = "done"
    /\ selections < MaxSelections
    /\ selections' = selections + 1
    /\ \E d \in LogDates :
          /\ selectedDate' = d
          /\ inFlight' = inFlight \cup (IF d # selectedDate THEN {LogsFetch(d)} ELSE {})
    /\ selectedLogId' = 0
    /\ currentLog' = IF DetailCleared(selectedLogId, 0) THEN 0 ELSE currentLog
    /\ UNCHANGED <<pc, daily_logs, logs, initialData>>
    /\ UNCHANGED <<priorityVars, hoursVars, gridVars, dashboardVars>>
    /\ UNCHANGED <<repeatVars, layoutVars, jobVars, sheetVars, notesVars>>

\* a row of the date's list is clicked: setSelectedLogId(log.id)
SelectLog ==
    /\ pc = "done"
    /\ selections < MaxSelections
    /\ selections' = selections + 1
    /\ \E id \in RowIds(logs) :
          /\ selectedLogId' = id
          /\ inFlight' = inFlight \cup DetailStarted(selectedLogId, id)
    /\ UNCHANGED <<pc, daily_logs, selectedDate, logs, currentLog, initialData>>
    /\ UNCHANGED <<priorityVars, hoursVars, gridVars, dashboardVars>>
    /\ UNCHANGED <<repeatVars, layoutVars, jobVars, sheetVars, notesVars>>

\* the page is open when a job is created: initialData becomes { logId }
\* and its effect selects that log
InitialDataChanges ==
    /\ pc = "done"
    /\ \E logId \in RowIds(daily_logs) :
          /\ initialData' = logId
          /\ selectedLogId' = logId
          /\ inFlight' = inFlight \cup DetailStarted(selectedLogId, logId)
    /\ UNCHANGED <<pc, daily_logs, selectedDate, logs, currentLog, selections>>
    /\ UNCHANGED <<priorityVars, hoursVars, gridVars, dashboardVars>>
    /\ UNCHANGED <<repeatVars, layoutVars, jobVars, sheetVars, notesVars>>

\* a fetchDailyLogs({ date }) of loadLogs resolves (the query succeeds):
\* setLogs(data) and, `!selectedLogId` being read in the render in which
\* selectedDate last changed, where it is null, setSelectedLogId(data[0].id)
\* for a non-empty answer; then the effects on [selectedLogId] and on [logs]
\* (data is a new array), and the effect on [selectedLogId] once more when
\* the effect on [logs] changed the selection
LogsFetchResolves ==
    /\ \E f \in inFlight :
          /\ f.kind = "logs"
          /\ LET data == fetchDailyLogs(f.date)
                 stored == IF Len(data) > 0 THEN data[1].id ELSE selectedLogId
                 settled == LogsEffectSelected(data, stored)
             IN  /\ logs' = data
                 /\ selectedLogId' = settled
                 /\ inFlight' = (inFlight \ {f})
                                  \cup DetailStarted(selectedLogId, stored)
                                  \cup DetailStarted(stored, settled)
                 /\ currentLog' = IF \/ DetailCleared(selectedLogId, stored)
                                     \/ DetailCleared(stored, settled)
                                     \/ Len(data) = 0
                                  THEN 0 ELSE currentLog
    /\ UNCHANGED <<pc, daily_logs, selectedDate, initialData, selections>>
    /\ UNCHANGED <<priorityVars, hoursVars, gridVars, dashboardVars>>
    /\ UNCHANGED <<repeatVars, layoutVars, jobVars, sheetVars, notesVars>>

\* a fetchDailyLogFull(id) of loadLogDetail resolves: setCurrentLog(full)
DetailFetchResolves ==
    /\ \E f \in inFlight :
          /\ f.kind = "detail"
          /\ inFlight' = inFlight \ {f}
          /\ currentLog' = f.id
    /\ UNCHANGED <<pc, daily_logs, selectedDate, logs, selectedLogId, initialData,
                   selections>>
    /\ UNCHANGED <<priorityVars, hoursVars, gridVars, dashboardVars>>
    /\ UNCHANGED <<repeatVars, layoutVars, jobVars, sheetVars, notesVars>>

NextLogs ==
    \/ OpenPage
    \/ ChangeDate
    \/ SelectLog
    \/ InitialDataChanges
    \/ LogsFetchResolves
    \/ DetailFetchResolves

SpecLogs == InitLogs /\ [][NextLogs]_vars

\* no fetchDailyLogs of the page is unresolved
LogsLoaded == pc = "done" /\ \A f \in inFlight : f.kind # "logs"

\* C25: once every fetch of loadLogs has resolved, logs holds the rows of the
\* selected date
C25_LogsOfSelectedDate ==
    LogsLoaded => logs = fetchDailyLogs(selectedDate)

\* C26: the page was opened with a logId and the user has picked nothing
\* since; once every load has resolved, that log is the selected log and the
\* log shown
C26_OpenedLogIsShown ==
    (pc = "done" /\ initialData # 0 /\ selections = 0 /\ inFlight = {})
        => /\ selectedLogId = initialData
           /\ currentLog = initialData

----------------------------------------------------------------------------
(* JobFormDialog: creating a job, for a new or an existing project *)

ProjectNames == {"Depot", "Mill"}

\* submissions of the form
MaxSubmissions == 3

\* the projects table before the dialog is used
ProjectTables == {<<>>, <<[id |-> 1, name |-> "Yard"]>>}

InitJob ==
    /\ pc = "ready"
    /\ projects \in ProjectTables
    /\ daily_logs = <<>>
    /\ mode = "new"
    /\ selectedProjectId = 0
    /\ projectName = ""
    /\ saving = FALSE
    /\ submitStep = "idle"
    /\ projectId = 0
    /\ submissions = 0
    /\ lastOutcome = "none"
    /\ createdBySubmit = {}
    /\ IdleLayout
    /\ IdlePriority
    /\ IdleHours
    /\ IdleGrid
    /\ IdleDashboard
    /\ IdleRepeat
    /\ IdleLogs
    /\ IdleSheet
    /\ IdleNotes

\* onQuickAdd: AppLayout shows the dialog
OpenJobDialog ==
    /\ ~showJobDialog
    /\ showJobDialog' = TRUE
    /\ UNCHANGED <<pc, daily_logs, jobVars>>
    /\ UNCHANGED <<profiles, user, profile, loading, pendingFetches, currentPage, pageData>>
    /\ UNCHANGED <<priorityVars, hoursVars, gridVars, dashboardVars>>
    /\ UNCHANGED <<repeatVars, logsVars, sheetVars, notesVars>>

\* the mode buttons: setMode
SetMode ==
    /\ showJobDialog
    /\ submitStep = "idle"
    /\ \E m \in {"new", "existing"} :
          /\ m # mode
          /\ mode' = m
    /\ lastOutcome' = "none"
    /\ UNCHANGED <<pc, daily_logs, projects, selectedProjectId, projectName, saving,
                   submitStep, projectId, submissions, createdBySubmit>>
    /\ UNCHANGED <<layoutVars, priorityVars, hoursVars, gridVars, dashboardVars>>
    /\ UNCHANGED <<repeatVars, logsVars, sheetVars, notesVars>>

\* the project name input: setProjectName
TypeProjectName ==
    /\ showJobDialog
    /\ submitStep = "idle"
    /\ mode = "new"
    /\ \E n \in ProjectNames :
          /\ n # projectName
          /\ projectName' = n
    /\ lastOutcome' = "none"
    /\ UNCHANGED <<pc, daily_logs, projects, mode, selectedProjectId, saving,
                   submitStep, projectId, submissions, createdBySubmit>>
    /\ UNCHANGED <<layoutVars, priorityVars, hoursVars, gridVars, dashboardVars>>
    /\ UNCHANGED <<repeatVars, logsVars, sheetVars, notesVars>>

\* the project select: setSelectedProjectId
SelectProject ==
    /\ showJobDialog
    /\ submitStep = "idle"
    /\ mode = "existing"
    /\ \E i \in 1..Len(projects) :
          /\ projects[i].id # selectedProjectId
          /\ selectedProjectId' = projects[i].id
    /\ lastOutcome' = "none"
    /\ UNCHANGED <<pc, daily_logs, projects, mode, projectName, saving,
                   submitStep, projectId, submissions, createdBySubmit>>
    /\ UNCHANGED <<layoutVars, priorityVars, hoursVars, gridVars, dashboardVars>>
    /\ UNCHANGED <<repeatVars, logsVars, sheetVars, notesVars>>

\* handleSubmit up to its first await; the button is disabled while saving
\* and the required fields are filled in
Submit ==
    /\ showJobDialog
    /\ submitStep = "idle"
    /\ submissions < MaxSubmissions
    /\ IF mode = "new" THEN projectName # "" ELSE selectedProjectId # 0
    /\ pc' = "done"
    /\ submissions' = submissions + 1
    /\ saving' = TRUE
    /\ projectId' = selectedProjectId
    /\ submitStep' = IF mode = "new" THEN "createProject" ELSE "createDailyLog"
    /\ createdBySubmit' = IF lastOutcome = "logFailed" THEN createdBySubmit ELSE {}
    /\ UNCHANGED <<daily_logs, projects, mode, selectedProjectId, projectName,
                   lastOutcome>>
    /\ UNCHANGED <<layoutVars, priorityVars, hoursVars, gridVars, dashboardVars>>
    /\ UNCHANGED <<repeatVars, logsVars, sheetVars, notesVars>>

\* createProject resolves with the inserted row, or throws
CreateProjectSettles ==
    /\ submitStep = "createProject"
    /\ \E inserted \in BOOLEAN :
          IF inserted
          THEN LET id == Len(projects) + 1
               IN  /\ projects' = Append(projects, [id |-> id, name |-> projectName])
                   /\ projectId' = id
                   /\ createdBySubmit' = createdBySubmit \cup {id}
                   /\ submitStep' = "createDailyLog"
                   /\ UNCHANGED <<saving, lastOutcome>>
          ELSE /\ saving' = FALSE
               /\ submitStep' = "idle"
               /\ lastOutcome' = "projectFailed"
               /\ UNCHANGED <<projects, projectId, createdBySubmit>>
    /\ UNCHANGED <<pc, daily_logs, mode, selectedProjectId, projectName, submissions>>
    /\ UNCHANGED <<layoutVars, priorityVars, hoursVars, gridVars, dashboardVars>>
    /\ UNCHANGED <<repeatVars, logsVars, sheetVars, notesVars>>

\* createDailyLog resolves with the inserted row (then onCreated, which is
\* AppLayout.handleJobCreated, and resetForm), or throws
CreateDailyLogSettles ==
    /\ submitStep = "createDailyLog"
    /\ \E inserted \in BOOLEAN :
          IF inserted
          THEN LET id == Len(daily_logs) + 1
               IN  /\ daily_logs' = Append(daily_logs,
                          [id |-> id, project_id |-> projectId, log_date |-> LogToday])
                   /\ showJobDialog' = FALSE
                   /\ currentPage' = "daily-logs"
                   /\ pageData' = id
                   /\ projectName' = ""
                   /\ selectedProjectId' = 0
                   /\ mode' = "new"
                   /\ lastOutcome' = "created"
          ELSE /\ lastOutcome' = "logFailed"
               /\ UNCHANGED <<daily_logs, showJobDialog, currentPage, pageData,
                              projectName, selectedProjectId, mode>>
    /\ saving' = FALSE
    /\ submitStep' = "idle"
    /\ UNCHANGED <<pc, projects, projectId, submissions, createdBySubmit>>
    /\ UNCHANGED <<profiles, user, profile, loading, pendingFetches>>
    /\ UNCHANGED <<priorityVars, hoursVars, gridVars, dashboardVars>>
    /\ UNCHANGED <<repeatVars, logsVars, sheetVars, notesVars>>

NextJob ==
    \/ OpenJobDialog
    \/ SetMode
    \/ TypeProjectName
    \/ SelectProject
    \/ Submit
    \/ CreateProjectSettles
    \/ CreateDailyLogSettles

SpecJob == InitJob /\ [][NextJob]_vars

\* the projects of the table that the form's submissions inserted
ProjectsOfForm ==
    {i \in 1..Len(projects) : projects[i].id \in createdBySubmit}

\* C27: when handleSubmit has ended, saving is false; when it ended because
\* createDailyLog failed, no project of that submission is in the table; and
\* when a form in 'new project' mode was created, failed attempts or not,
\* the table holds exactly one project for it
C27_AllOrNothing ==
    submitStep = "idle"
        => /\ saving = FALSE
           /\ lastOutcome = "logFailed" => ProjectsOfForm = {}
           /\ (lastOutcome = "created" /\ createdBySubmit # {})
                  => Cardinality(ProjectsOfForm) = 1

----------------------------------------------------------------------------
(* TimesheetPage: the days of the period and their lines.  A date           *)
(* ('yyyy-MM-dd') is its day number; of a line the fields id, startTime,    *)
(* lunch, lunchMinutes and finishTime are kept.                             *)

\* edits of the timesheet (week-ending date, lines)
MaxSheetEdits == 2

\* the settings fetchSettings can resolve with: a weekly period with either
\* lunch default, a fortnightly period
SettingsValues ==
    {[loaded |-> TRUE, timesheetPeriod |-> 1, lunchDefaultMinutes |-> 30],
     [loaded |-> TRUE, timesheetPeriod |-> 1, lunchDefaultMinutes |-> 60],
     [loaded |-> TRUE, timesheetPeriod |-> 2, lunchDefaultMinutes |-> 30]}

\* week-ending dates the date input is given
WeekEndings == {LogToday, LogToday + 7}

\* makeLine(lunchDefault), uuid() drawing the id
makeLine(lunchDefault, id) ==
    [id |-> id, startTime |-> <<>>, lunch |-> FALSE,
     lunchMinutes |-> lunchDefault, finishTime |-> <<>>]

\* the day-building effect for settings s and week-ending date w over the
\* days old; the lines it makes draw the ids firstId, firstId + 1, ...
BuildDays(s, w, old, firstId) ==
    LET numDays == IF s.timesheetPeriod = 2 THEN 14 ELSE 7
        DateAt(j) == w - (numDays - j)
        Existing(j) == {k \in 1..Len(old) : old[k].date = DateAt(j)}
        Found(j) == CHOOSE k \in Existing(j) : \A other \in Existing(j) : k <= other
        MadeBefore(j) == Cardinality({i \in 1..(j - 1) : Existing(i) = {}})
    IN  [j \in 1..numDays |->
            [date |-> DateAt(j),
             lines |-> IF Existing(j) # {} THEN old[Found(j)].lines
                       ELSE <<makeLine(s.lunchDefaultMinutes, firstId + MadeBefore(j))>>]]

\* the drafts localStorage can hold: the days an earlier visit built for a
\* week-ending date and a period, one blank line a day, ids from 1
StoredDraft(w, p) ==
    [weekEnding |-> w,
     days |-> BuildDays([loaded |-> TRUE, timesheetPeriod |-> p,
                         lunchDefaultMinutes |-> 30], w, <<>>, 1)]
StoredDrafts == {StoredDraft(LogToday + 7, 1), StoredDraft(LogToday, 2)}

\* TimesheetPage after its first render and effects: no settings yet,
\* weekEnding and days from the stored draft if there is one
InitSheet ==
    /\ pc = "ready"
    /\ settings = NoSettings
    /\ sheetEdits = 0
    /\ \/ /\ weekEnding = LogToday
          /\ timesheetDays = <<>>
          /\ nextLineId = 1
       \/ \E draft \in StoredDrafts :
            /\ weekEnding = draft.weekEnding
            /\ timesheetDays = draft.days
            /\ nextLineId = Len(draft.days) + 1
    /\ IdlePriority
    /\ IdleHours
    /\ IdleGrid
    /\ IdleDashboard
    /\ IdleRepeat
    /\ IdleLayout
    /\ daily_logs = <<>>
    /\ IdleLogs
    /\ IdleJob
    /\ IdleNotes

\* the lines the day-building effect makes for w over the current days
MadeByBuild(s, w) ==
    Cardinality({j \in 1..Len(BuildDays(s, w, timesheetDays, 0)) :
                    \A k \in 1..Len(timesheetDays) :
                        timesheetDays[k].date # BuildDays(s, w, timesheetDays, 0)[j].date})

\* fetchSettings resolves: setSettings(s), then the day-building effect
\* (settings?.timesheetPeriod has changed)
SettingsLoaded ==
    /\ pc = "ready"
    /\ pc' = "done"
    /\ \E s \in SettingsValues :
          /\ settings' = s
          /\ IF weekEnding = 0
             THEN UNCHANGED <<timesheetDays, nextLineId>>
             ELSE /\ timesheetDays' = BuildDays(s, weekEnding, timesheetDays, nextLineId)
                  /\ nextLineId' = nextLineId + MadeByBuild(s, weekEnding)
    /\ UNCHANGED <<weekEnding, sheetEdits>>
    /\ UNCHANGED <<priorityVars, hoursVars, gridVars, dashboardVars>>
    /\ UNCHANGED <<repeatVars, layoutVars, daily_logs, logsVars, jobVars, notesVars>>

\* the week-ending input: setWeekEnding(value), '' when it is cleared, then
\* the day-building effect when the value has changed
ChangeWeekEnding ==
    /\ pc = "done"
    /\ sheetEdits < MaxSheetEdits
    /\ sheetEdits' = sheetEdits + 1
    /\ \E w \in WeekEndings \cup {0} :
          /\ w # weekEnding
          /\ weekEnding' = w
          /\ IF w = 0
             THEN UNCHANGED <<timesheetDays, nextLineId>>
             ELSE /\ timesheetDays' = BuildDays(settings, w, timesheetDays, nextLineId)
                  /\ nextLineId' = nextLineId + MadeByBuild(settings, w)
    /\ UNCHANGED <<pc, settings>>
    /\ UNCHANGED <<priorityVars, hoursVars, gridVars, dashboardVars>>
    /\ UNCHANGED <<repeatVars, layoutVars, daily_logs, logsVars, jobVars, notesVars>>

\* the line patches the inputs send: the start time set on focus, the lunch
\* checkbox ticked
SevenOClock == <<"0", "7", ":", "0", "0">>

\* updateLine's map over the lines of one day
PatchLines(lines, lineId) ==
    [n \in 1..Len(lines) |->
        IF lines[n].id = lineId
        THEN [lines[n] EXCEPT !.startTime = SevenOClock, !.lunch = TRUE]
        ELSE lines[n]]

\* removeLine that leaves the day with the lines the filter keeps
RemoveFrom_NoBlankLine(lines, lineId, lunchDefault, freshId) ==
    LET Kept(l) == l.id # lineId
    IN  SelectSeq(lines, Kept)

\* removeLine's new lines of one day
RemoveFrom(lines, lineId, lunchDefault, freshId) ==
    LET Kept(l) == l.id # lineId
        next == SelectSeq(lines, Kept)
    IN  IF Len(next) = 0 THEN <<makeLine(lunchDefault, freshId)>> ELSE next

\* updateLine(dayIdx, lineId, patch)
UpdateLine ==
    /\ pc = "done"
    /\ sheetEdits < MaxSheetEdits
    /\ sheetEdits' = sheetEdits + 1
    /\ \E dayIdx \in 1..Len(timesheetDays) :
       \E n \in 1..Len(timesheetDays[dayIdx].lines) :
          timesheetDays' =
              [timesheetDays EXCEPT ![dayIdx].lines =
                  PatchLines(timesheetDays[dayIdx].lines,
                             timesheetDays[dayIdx].lines[n].id)]
    /\ UNCHANGED <<pc, settings, weekEnding, nextLineId>>
    /\ UNCHANGED <<priorityVars, hoursVars, gridVars, dashboardVars>>
    /\ UNCHANGED <<repeatVars, layoutVars, daily_logs, logsVars, jobVars, notesVars>>

\* addLine(dayIdx)
AddLine ==
    /\ pc = "done"
    /\ settings.loaded
    /\ sheetEdits < MaxSheetEdits
    /\ sheetEdits' = sheetEdits + 1
    /\ \E dayIdx \in 1..Len(timesheetDays) :
          timesheetDays' =
              [timesheetDays EXCEPT ![dayIdx].lines =
                  Append(@, makeLine(settings.lunchDefaultMinutes, nextLineId))]
    /\ nextLineId' = nextLineId + 1
    /\ UNCHANGED <<pc, settings, weekEnding>>
    /\ UNCHANGED <<priorityVars, hoursVars, gridVars, dashboardVars>>
    /\ UNCHANGED <<repeatVars, layoutVars, daily_logs, logsVars, jobVars, notesVars>>

\* removeLine(dayIdx, lineId); makeLine is evaluated only for an emptied day
RemoveLine ==
    /\ pc = "done"
    /\ settings.loaded
    /\ sheetEdits < MaxSheetEdits
    /\ sheetEdits' = sheetEdits + 1
    /\ \E dayIdx \in 1..Len(timesheetDays) :
       \E n \in 1..Len(timesheetDays[dayIdx].lines) :
          /\ timesheetDays' =
                [timesheetDays EXCEPT ![dayIdx].lines =
                    RemoveFrom(@, timesheetDays[dayIdx].lines[n].id,
                               settings.lunchDefaultMinutes, nextLineId)]
          /\ nextLineId' = IF Len(timesheetDays[dayIdx].lines) = 1
                           THEN nextLineId + 1 ELSE nextLineId
    /\ UNCHANGED <<pc, settings, weekEnding>>
    /\ UNCHANGED <<priorityVars, hoursVars, gridVars, dashboardVars>>
    /\ UNCHANGED <<repeatVars, layoutVars, daily_logs, logsVars, jobVars, notesVars>>

NextSheet ==
    \/ SettingsLoaded
    \/ ChangeWeekEnding
    \/ UpdateLine
    \/ AddLine
    \/ RemoveLine

SpecSheet == InitSheet /\ [][NextSheet]_vars

\* the days have been built from the settings
DaysBuilt == pc = "done" /\ settings.loaded

\* 7 days, or 14 for a two-week period
PeriodDays == IF settings.timesheetPeriod = 2 THEN 14 ELSE 7

\* the line is as makeLine leaves it
IsBlankLine(l) == l.startTime = <<>> /\ l.finishTime = <<>> /\ ~l.lunch

\* C29: once the days are built there are 7 of them (14 for a two-week
\* period) and each has at least one line; and a step that takes its only
\* line from a day leaves it one blank line with a fresh id
C29_EveryDayHasALine ==
    /\ [](DaysBuilt =>
            /\ Len(timesheetDays) = PeriodDays
            /\ \A k \in 1..Len(timesheetDays) : Len(timesheetDays[k].lines) >= 1)
    /\ [][(DaysBuilt /\ weekEnding' = weekEnding)
            => \A k \in 1..Len(timesheetDays) :
                  (/\ Len(timesheetDays[k].lines) = 1
                   /\ \A n \in 1..Len(timesheetDays'[k].lines) :
                         timesheetDays'[k].lines[n].id # timesheetDays[k].lines[1].id)
                    => /\ Len(timesheetDays'[k].lines) = 1
                       /\ IsBlankLine(timesheetDays'[k].lines[1])
                       /\ timesheetDays'[k].lines[1].id = nextLineId]_vars

\* a fortnight whose third day had its only line removed after another
\* edit: the day has one blank line again, under the newest id
C29_Witness ==
    /\ DaysBuilt
    /\ sheetEdits = 2
    /\ Len(timesheetDays) = 14
    /\ Len(timesheetDays[3].lines) = 1
    /\ IsBlankLine(timesheetDays[3].lines[1])
    /\ timesheetDays[3].lines[1].id = nextLineId - 1
    /\ timesheetDays[3].lines[1].id > 14

----------------------------------------------------------------------------
(* fetchCalendarNotes: the notes of one month.  A note_date is its day      *)
(* number; the bounds of the query are texts, which the database reads as   *)
(* dates.                                                                   *)

\* String(n) of an integer
RECURSIVE DecimalText(_)
DecimalText(n) ==
    IF n < 0 THEN <<"-">> \o DecimalText(-n)
    ELSE IF n < 10 THEN <<<<"0", "1", "2", "3", "4", "5", "6", "7", "8", "9">>[n + 1]>>
    ELSE DecimalText(n \div 10) \o DecimalText(n % 10)

\* text.padStart(2, '0')
PadStartTwo(text) == IF Len(text) < 2 THEN <<"0">> \o text ELSE text

\* `${y}-${String(monthNumber).padStart(2, '0')}-01`
FirstOfMonthText(y, monthNumber) ==
    DecimalText(y) \o <<"-">> \o PadStartTwo(DecimalText(monthNumber))
        \o <<"-", "0", "1">>

\* endMonth and endYear of fetchCalendarNotes
EndMonth(m) == IF m = 11 THEN 0 ELSE m + 1

\* the end of the range left in the year of its start
EndYear_SameYear(m, y) == y

EndYear(m, y) == IF m = 11 THEN y + 1 ELSE y

\* the database reading a text yyyy-mm-dd as a date: a Date record, invalid
\* when the text is not of that form or names no date
DateOfText(text) ==
    LET n == Len(text)
        yy == SubSeq(text, 1, n - 6)
        mm == SubSeq(text, n - 4, n - 3)
        dd == SubSeq(text, n - 1, n)
        AllDigits(t) == Len(t) > 0 /\ \A i \in 1..Len(t) : t[i] \in Digits
    IN  IF n < 7 THEN InvalidDate
        ELSE IF ~(text[n - 5] = "-" /\ text[n - 2] = "-") THEN InvalidDate
        ELSE IF ~(AllDigits(yy) /\ AllDigits(mm) /\ AllDigits(dd)) THEN InvalidDate
        ELSE IF ~(NumberOf(yy) >= 1 /\ NumberOf(mm) \in 1..12) THEN InvalidDate
        ELSE IF NumberOf(dd) \notin 1..DaysInMonth(NumberOf(yy), NumberOf(mm))
             THEN InvalidDate
        ELSE [valid |-> TRUE, mins |-> 0,
              day |-> DayNumber(NumberOf(yy), NumberOf(mm), NumberOf(dd))]

\* fetchCalendarNotes(m, y) over the rows of calendar_notes: the query fails
\* when a bound is no date, and otherwise returns the rows from start up to,
\* not including, end
fetchCalendarNotes(m, y, rows) ==
    LET startDate == DateOfText(FirstOfMonthText(y, m + 1))
        endDate == DateOfText(FirstOfMonthText(EndYear(m, y), EndMonth(m) + 1))
    IN  IF ~startDate.valid \/ ~endDate.valid THEN [error |-> "query", rows |-> {}]
        ELSE [error |-> "none",
              rows |-> {d \in rows : d >= startDate.day /\ d < endDate.day}]

\* years of the month CalendarPage shows
NoteYears == {2023, 2024, 2025}

\* tables of note dates: at the ends of every month of those years and of the
\* months around them, and in the middle of every month
NoteTables ==
    LET BoundaryDates ==
            UNION {{DayNumber(y, m, 1), DayNumber(y, m, DaysInMonth(y, m))} :
                      y \in 2022..2026, m \in 1..12}
        MidMonthDates == {DayNumber(y, m, 15) : y \in NoteYears, m \in 1..12}
    IN  {{}, BoundaryDates, MidMonthDates, BoundaryDates \cup MidMonthDates}

InitNotes ==
    /\ pc = "ready"
    /\ calendar_notes \in NoteTables
    /\ notesYear \in NoteYears
    /\ notesMonth \in GridMonths
    /\ notesResult = [error |-> "none", rows |-> {}]
    /\ IdlePriority
    /\ IdleHours
    /\ IdleGrid
    /\ IdleDashboard
    /\ IdleRepeat
    /\ IdleLayout
    /\ daily_logs = <<>>
    /\ IdleLogs
    /\ IdleJob
    /\ IdleSheet

\* CalendarPage.loadData: store.fetchCalendarNotes(month.getMonth(),
\* month.getFullYear())
CallFetchCalendarNotes ==
    /\ pc = "ready"
    /\ pc' = "done"
    /\ notesResult' = fetchCalendarNotes(notesMonth, notesYear, calendar_notes)
    /\ UNCHANGED <<calendar_notes, notesMonth, notesYear>>
    /\ UNCHANGED <<priorityVars, hoursVars, gridVars, dashboardVars>>
    /\ UNCHANGED <<repeatVars, layoutVars, daily_logs, logsVars, jobVars, sheetVars>>

NextNotes == CallFetchCalendarNotes

SpecNotes == InitNotes /\ [][NextNotes]_vars

NotesCalled == pc = "done" /\ notesYear \in NoteYears

\* the note dates of the table in month m (0..11) of year y, by the calendar
NotesOfMonth(m, y) ==
    {d \in calendar_notes : CivilOfDay(d).y = y /\ CivilOfDay(d).m = m + 1}

\* C30: with month in 0..11 the query succeeds and returns exactly the notes
\* whose note_date lies in that month of that year: from its first day up to,
\* not including, the first day of the next month, January of year + 1 after
\* December
C30_NotesOfTheMonth ==
    (NotesCalled /\ notesMonth \in 0..11)
        => /\ notesResult.error = "none"
           /\ notesResult.rows = NotesOfMonth(notesMonth, notesYear)
           /\ \A d \in calendar_notes :
                  d \in notesResult.rows
                    <=> /\ d >= DayNumber(notesYear, notesMonth + 1, 1)
                        /\ d < (IF notesMonth = 11
                                THEN DayNumber(notesYear + 1, 1, 1)
                                ELSE DayNumber(notesYear, notesMonth + 2, 1))

\* December 2024 over a table with notes on 30 November, 1, 15 and 31
\* December and 1 January: the three of December are returned
C30_Witness ==
    /\ NotesCalled
    /\ notesMonth = 11
    /\ notesYear = 2024
    /\ DayNumber(2024, 11, 30) \in calendar_notes
    /\ DayNumber(2025, 1, 1) \in calendar_notes
    /\ notesResult.rows = {DayNumber(2024, 12, 1), DayNumber(2024, 12, 15),
                           DayNumber(2024, 12, 31)}

====
